---- MODULE Spec2Model ----
(***************************************************************************)
(* Model of the BSP pipeline of OBJ-3D-Display:                            *)
(*   build_bsp, FlatBSP and write_bsp_binary of BSP/obj_to_bsp.py, and the *)
(*   older pair BSP/build_bsp.py + FixedPoint/export_bsp_bin.py.           *)
(*                                                                         *)
(* Conventions.                                                            *)
(*  - A Python list is a TLA+ sequence; Python index i is position i+1.    *)
(*    Face positions (canonical indices), vertex indices and flat node     *)
(*    positions keep the program's 0-based values.                         *)
(*  - A face OBJECT is identified by its position in the input list        *)
(*    `faces` (parse_faces builds a fresh list per face line); its VALUE   *)
(*    is faces[pos+1].  Tree nodes hold references to face objects, so the *)
(*    model stores positions there and compares values only where the code *)
(*    compares values (find_face_idx, f == face).                          *)
(*  - A tree node (a Python dict) is a handle h >= 1 into the sequence     *)
(*    `tree`; None is the handle 0.                                        *)
(*  - Coordinates are small integers.  A unit normal n/|n| is kept as the  *)
(*    integer vector n with its squared length, and d > epsilon is decided *)
(*    exactly as dot*(1/epsilon) > |n|.                                    *)
(***************************************************************************)
EXTENDS Integers, Sequences, FiniteSets, TLC

VARIABLES
    vertices,       \* the vertex list (input)
    faces,          \* the face list (input); face objects by position
    pc,             \* position of the pipeline
    err,            \* the exception that ended the run, or "none"
    planes,         \* build_bsp: planes[], one per face
    stack,          \* build_bsp: pending (parent, idx_list, field) tasks
    tree,           \* the node dicts created so far, by handle
    root,           \* build_bsp: root
    nodes_created,  \* build_bsp: nodes_created[0]
    alloc,          \* how the allocator hands out addresses in this run
    ids,            \* ids[h] = id(node h)
    flat,           \* the FlatBSP instance: nodes, faces_on_plane, faces
    node_to_idx,    \* flatten: node_to_idx, keyed by id(node)
    queue,          \* flatten: queue of the indexing pass
    idx,            \* flatten: idx
    fstack,         \* flatten: stack of the fill pass
    out,            \* the bytes of the output file
    run,            \* number of the current run of the pipeline
    first           \* what the first run produced (kept for comparison)

vars == <<vertices, faces, pc, err, planes, stack, tree, root, nodes_created,
          alloc, ids, flat, node_to_idx, queue, idx, fstack, out, run, first>>

----------------------------------------------------------------------------
(* Bounds and inputs *)

MaxFaces == 3

\* The vertex list: three triangles' corners in the planes z = 0, 1, -1.
VertexList ==
    << <<0, 0, 0>>, <<1, 0, 0>>, <<0, 1, 0>>,
       <<0, 0, 1>>, <<1, 0, 1>>, <<0, 1, 1>>,
       <<0, 0, -1>>, <<1, 0, -1>>, <<0, 1, -1>> >>

\* The faces an input list is drawn from (vertex indices are 0-based):
FacePool ==
    { <<0, 1, 2>>,      \* triangle in z = 0, normal (0,0,1)
      <<0, 2, 1>>,      \* the same plane, normal (0,0,-1)
      <<3, 4, 5>>,      \* triangle in z = 1
      <<6, 7, 8>>,      \* triangle in z = -1
      <<3, 6, 4>>,      \* triangle in y = 0: in front of z = 0, behind it, in front
      <<1, 2, 3>>,      \* oblique triangle, normal (1,1,1)/sqrt(3)
      <<0, 3, 6>>,      \* collinear: default normal, spans its own plane
      <<0, 1, 2, 3>>,   \* non-planar quad: 4th vertex in front of its plane
      <<0, 1>> }        \* fewer than three vertices

\* Four faces in four different planes, and the lists that hold each of them
\* once: their trees have four nodes, among them the tree whose breadth-first
\* and depth-first orders differ and the chain as deep as the list is long.
DeepPool == { <<0, 1, 2>>, <<3, 4, 5>>, <<6, 7, 8>>, <<1, 2, 3>> }

DeepLists ==
    { s \in [1..Cardinality(DeepPool) -> DeepPool] :
        \A i, j \in DOMAIN s : i # j => s[i] # s[j] }

\* A face line "f 1 2 0" parses to the indices [0, 1, -1]: lists of one or
\* two faces with such a face among them.
WrapPool == { <<0, 1, 2>>, <<0, 1, -1>> }

WrapLists ==
    { s \in UNION { [1..n -> WrapPool] : n \in 1..Cardinality(WrapPool) } :
        \E i \in DOMAIN s : \E k \in DOMAIN s[i] : s[i][k] < 0 }

FaceLists ==
    UNION { [1..n -> FacePool] : n \in 0..MaxFaces } \cup DeepLists \cup WrapLists

----------------------------------------------------------------------------
(* Plane Computer and Face Classifier *)

EpsInv == 100000       \* 1/epsilon, epsilon = 1e-5

None == 0              \* the handle of no node
NoFace == -1           \* plane_face of a node that has none yet

Range(s) == { s[i] : i \in DOMAIN s }

\* vertices[i]: a negative index counts from the end of the list.
Vtx(vs, i) == IF i < 0 THEN vs[Len(vs) + i + 1] ELSE vs[i + 1]

Sub(p, q) == << p[1] - q[1], p[2] - q[2], p[3] - q[3] >>

Dot(p, q) == p[1] * q[1] + p[2] * q[2] + p[3] * q[3]

Cross(u, v) ==
    << u[2] * v[3] - u[3] * v[2],
       u[3] * v[1] - u[1] * v[3],
       u[1] * v[2] - u[2] * v[1] >>

\* floor(sqrt(m))
ISqrt(m) == CHOOSE k \in 0..m : k * k <= m /\ (k + 1) * (k + 1) > m

\* face_plane: the plane through the face's first vertex.  The unit normal
\* n/|n| is kept as (normal, normsq); the default normal when |n| = 0.
face_plane(face, vs) ==
    LET p0 == Vtx(vs, face[1])
        p1 == Vtx(vs, face[2])
        p2 == Vtx(vs, face[3])
        n  == Cross(Sub(p1, p0), Sub(p2, p0))
        nn == Dot(n, n)
    IN  IF nn = 0
        THEN [point |-> p0, normal |-> <<0, 0, 1>>, normsq |-> 1]
        ELSE [point |-> p0, normal |-> n, normsq |-> nn]

\* The sign of d = dot(p - point, unit normal) against epsilon:
\* 1 when d > epsilon, -1 when d < -epsilon, 0 otherwise.
Side(p, plane) ==
    LET dn == Dot(Sub(p, plane.point), plane.normal)
        r  == ISqrt(plane.normsq)
    IN  IF dn * EpsInv > r THEN 1
        ELSE IF (0 - dn) * EpsInv > r THEN -1
        ELSE 0

\* classify_face: scans every vertex of the face.
classify_face(face, plane, vs) ==
    LET front == \E k \in DOMAIN face : Side(Vtx(vs, face[k]), plane) = 1
        back  == \E k \in DOMAIN face : Side(Vtx(vs, face[k]), plane) = -1
    IN  IF front /\ ~back THEN "front"
        ELSE IF back /\ ~front THEN "back"
        ELSE IF ~front /\ ~back THEN "on"
        ELSE "spanning"

\* The inlined vertex loop of build_bsp, from vertex k on, with its early
\* exit: returns the flags <<front, back>>.
RECURSIVE InlineScanStopAtFirstSide(_, _, _, _, _, _)
InlineScanStopAtFirstSide(face, plane, vs, k, front, back) ==
    IF k > Len(face) THEN <<front, back>>
    ELSE LET s == Side(Vtx(vs, face[k]), plane)
         IN  IF s = 1 THEN <<TRUE, back>>
             ELSE IF s = -1 THEN <<front, TRUE>>
             ELSE InlineScanStopAtFirstSide(face, plane, vs, k + 1, front, back)

RECURSIVE InlineScan(_, _, _, _, _, _)
InlineScan(face, plane, vs, k, front, back) ==
    IF k > Len(face) THEN <<front, back>>
    ELSE LET s == Side(Vtx(vs, face[k]), plane)
         IN  IF s = 1
             THEN IF back THEN <<TRUE, back>>
                  ELSE InlineScan(face, plane, vs, k + 1, TRUE, back)
             ELSE IF s = -1
             THEN IF front THEN <<front, TRUE>>
                  ELSE InlineScan(face, plane, vs, k + 1, front, TRUE)
             ELSE InlineScan(face, plane, vs, k + 1, front, back)

\* The list a face of the partition is appended to, from its flags.
SideOfSpanningDropped(fb) ==
    IF fb[1] /\ fb[2] THEN "spanning"
    ELSE IF fb[1] THEN "front"
    ELSE IF fb[2] THEN "back"
    ELSE "on"

SideOfSpanningBack(fb) ==
    IF fb[1] /\ fb[2] THEN "back"
    ELSE IF fb[1] THEN "front"
    ELSE IF fb[2] THEN "back"
    ELSE "on"

SideOf(fb) ==
    IF fb[1] /\ fb[2] THEN "front"      \* spanning -> front
    ELSE IF fb[1] THEN "front"
    ELSE IF fb[2] THEN "back"
    ELSE "on"

\* The list face fi goes to at a node whose plane is `plane`.
Placed(fi, plane) ==
    SideOf(InlineScan(faces[fi + 1], plane, vertices, 1, FALSE, FALSE))

----------------------------------------------------------------------------
(* BSP Builder: build_bsp of obj_to_bsp.py *)

NewNode == [plane_face |-> NoFace, faces_on_plane |-> <<>>,
            front |-> None, back |-> None]

\* The faces classified at a node: all of the partition but the plane face.
RestWithPlaneFace(idx_list) == idx_list

RestKeepingSplitter(idx_list) == idx_list

Rest(idx_list) == Tail(idx_list)

\* idx_on starts with the plane face itself.
IdxOnWithoutPlaneFace(plane_idx, rest, plane) ==
    SelectSeq(rest, LAMBDA fi : Placed(fi, plane) = "on")

IdxOnTakingAll(plane_idx, rest, plane) == <<plane_idx>> \o rest

IdxOn(plane_idx, rest, plane) ==
    <<plane_idx>> \o SelectSeq(rest, LAMBDA fi : Placed(fi, plane) = "on")

IdxFrontReversed(rest, plane) ==
    LET s == SelectSeq(rest, LAMBDA fi : Placed(fi, plane) = "front")
    IN  [k \in DOMAIN s |-> s[Len(s) + 1 - k]]

IdxFront(rest, plane) == SelectSeq(rest, LAMBDA fi : Placed(fi, plane) = "front")

IdxBackFromFront(rest, plane) ==
    SelectSeq(rest, LAMBDA fi : Placed(fi, plane) = "front")

IdxBack(rest, plane) == SelectSeq(rest, LAMBDA fi : Placed(fi, plane) = "back")

\* id() of the k-th node created in this run.
NewAddr(k) == IF alloc = "up" THEN k ELSE Len(faces) + 1 - k

\* parent[field] = child
SetFieldSwapped(t, parent, field, child) ==
    IF parent = None THEN t
    ELSE IF field = "front" THEN [t EXCEPT ![parent].back = child]
    ELSE [t EXCEPT ![parent].front = child]

SetField(t, parent, field, child) ==
    IF parent = None THEN t
    ELSE IF field = "front" THEN [t EXCEPT ![parent].front = child]
    ELSE [t EXCEPT ![parent].back = child]

PlaceholderRoot == -1   \* the dict `root` is bound to before the loop

\* build_bsp up to the loop: empty list, plane pre-computation, first task.
BuildStart ==
    /\ pc = "start"
    /\ IF faces = <<>>
       THEN /\ pc' = "built"
            /\ root' = None
            /\ UNCHANGED <<err, planes, stack>>
       ELSE IF \E i \in DOMAIN faces : Len(faces[i]) < 3
       THEN /\ pc' = "failed"
            /\ err' = "ValueError"
            /\ UNCHANGED <<root, planes, stack>>
       ELSE /\ pc' = "build"
            /\ planes' = [i \in DOMAIN faces |-> face_plane(faces[i], vertices)]
            /\ root' = PlaceholderRoot
            /\ stack' = << [parent |-> None,
                            idx_list |-> [i \in DOMAIN faces |-> i - 1],
                            field |-> "none"] >>
            /\ UNCHANGED err
    /\ UNCHANGED <<vertices, faces, tree, nodes_created, alloc, ids, flat,
                   node_to_idx, queue, idx, fstack, out, run, first>>

\* One iteration of the while loop of build_bsp.
BuildStep ==
    /\ pc = "build"
    /\ stack # <<>>
    /\ LET task  == stack[Len(stack)]
           rest0 == SubSeq(stack, 1, Len(stack) - 1)
       IN  IF task.idx_list = <<>>
           THEN /\ tree' = SetField(tree, task.parent, task.field, None)
                /\ stack' = rest0
                /\ UNCHANGED <<root, nodes_created, ids>>
           ELSE LET node      == Len(tree) + 1
                    plane_idx == task.idx_list[1]
                    plane     == planes[plane_idx + 1]
                    rest      == Rest(task.idx_list)
                    idx_on    == IdxOn(plane_idx, rest, plane)
                    idx_front == IdxFront(rest, plane)
                    idx_back  == IdxBack(rest, plane)
                    filled    == [NewNode EXCEPT !.plane_face = plane_idx,
                                                 !.faces_on_plane = idx_on]
                    withBack  == IF idx_back # <<>>
                                 THEN Append(rest0, [parent |-> node,
                                                     idx_list |-> idx_back,
                                                     field |-> "back"])
                                 ELSE rest0
                    withFront == IF idx_front # <<>>
                                 THEN Append(withBack, [parent |-> node,
                                                        idx_list |-> idx_front,
                                                        field |-> "front"])
                                 ELSE withBack
                IN  /\ tree' = SetField(Append(tree, filled),
                                        task.parent, task.field, node)
                    /\ nodes_created' = nodes_created + 1
                    /\ ids' = Append(ids, NewAddr(node))
                    /\ root' = IF task.parent = None THEN node ELSE root
                    /\ stack' = withFront
    /\ UNCHANGED <<vertices, faces, pc, err, planes, alloc, flat, node_to_idx,
                   queue, idx, fstack, out, run, first>>

\* The loop ends with the stack empty: return root.
BuildReturn ==
    /\ pc = "build"
    /\ stack = <<>>
    /\ pc' = "built"
    /\ UNCHANGED <<vertices, faces, err, planes, stack, tree, root,
                   nodes_created, alloc, ids, flat, node_to_idx, queue, idx,
                   fstack, out, run, first>>

----------------------------------------------------------------------------
(* Tree Flattener: FlatBSP of obj_to_bsp.py *)

Sentinel == 65535      \* 0xFFFF, what find_face_idx returns on failure

\* A slot of self.nodes that was reserved (None) and not filled yet.
Reserved == [plane_face_idx |-> -2, faces_on_plane_count |-> -2,
             faces_on_plane_idx_start |-> -2,
             front_node_idx |-> -2, back_node_idx |-> -2]

\* FlatBSP.__init__ (self.faces is set by run)
FlatBSP_initShared ==
    [nodes |-> flat.nodes, faces_on_plane |-> flat.faces_on_plane,
     faces |-> <<>>]

FlatBSP_init == [nodes |-> <<>>, faces_on_plane |-> <<>>, faces |-> <<>>]

EmptyMap == [a \in {} |-> 0]

id(node) == ids[node]

\* find_face_idx: the first position of self_faces holding a face equal BY
\* VALUE to `face`, 0xFFFF when there is none.
find_face_idx(self_faces, face) ==
    IF \E i \in DOMAIN self_faces : self_faces[i] = face
    THEN (CHOOSE i \in DOMAIN self_faces :
             /\ self_faces[i] = face
             /\ \A j \in 1..(i - 1) : self_faces[j] # face) - 1
    ELSE Sentinel

\* The value of the face object at position pos of the input list.
FaceValue(pos) == faces[pos + 1]

\* node_to_idx.get(id(child), -1) if child else -1
ChildIdxByCreation(m, child) ==
    IF child = None THEN -1 ELSE child - 1

ChildIdx(m, child) ==
    IF child = None THEN -1
    ELSE IF id(child) \in DOMAIN m THEN m[id(child)]
    ELSE -1

\* FlatBSP() ; run(bsp_tree, faces) up to the first pass of flatten.
FlatStart ==
    /\ pc = "built"
    /\ flat' = [FlatBSP_init EXCEPT !.faces = faces]
    /\ IF root = None
       THEN /\ pc' = "flat"
            /\ UNCHANGED <<node_to_idx, queue, idx>>
       ELSE /\ pc' = "index"
            /\ node_to_idx' = EmptyMap
            /\ queue' = <<root>>
            /\ idx' = 0
    /\ UNCHANGED <<vertices, faces, err, planes, stack, tree, root,
                   nodes_created, alloc, ids, fstack, out, run, first>>

\* The order the indexing pass appends a node's children to its queue in:
\* front, then back.
EnqueueChildrenBackFirst(q, node) ==
    LET qb == IF tree[node].back # None THEN Append(q, tree[node].back) ELSE q
    IN  IF tree[node].front # None THEN Append(qb, tree[node].front) ELSE qb

EnqueueChildren(q, node) ==
    LET qf == IF tree[node].front # None THEN Append(q, tree[node].front) ELSE q
    IN  IF tree[node].back # None THEN Append(qf, tree[node].back) ELSE qf

\* One iteration of the first (indexing) pass.
IndexStep ==
    /\ pc = "index"
    /\ queue # <<>>
    /\ LET node == Head(queue)
           q0   == Tail(queue)
       IN  IF node = None \/ id(node) \in DOMAIN node_to_idx
           THEN /\ queue' = q0
                /\ UNCHANGED <<node_to_idx, flat, idx>>
           ELSE LET qb == EnqueueChildren(q0, node)
                IN  /\ node_to_idx' =
                           [a \in DOMAIN node_to_idx \cup {id(node)} |->
                               IF a = id(node) THEN idx ELSE node_to_idx[a]]
                    /\ flat' = [flat EXCEPT !.nodes = Append(@, Reserved)]
                    /\ idx' = idx + 1
                    /\ queue' = qb
    /\ UNCHANGED <<vertices, faces, pc, err, planes, stack, tree, root,
                   nodes_created, alloc, ids, fstack, out, run, first>>

\* The first pass ends; the second starts with stack = [root].
IndexDone ==
    /\ pc = "index"
    /\ queue = <<>>
    /\ pc' = "fill"
    /\ fstack' = <<root>>
    /\ UNCHANGED <<vertices, faces, err, planes, stack, tree, root,
                   nodes_created, alloc, ids, flat, node_to_idx, queue, idx,
                   out, run, first>>

\* The order the fill pass pushes a node's children in: back, then front.
PushChildrenFrontFirst(s, node) ==
    LET sf == IF tree[node].front # None THEN Append(s, tree[node].front) ELSE s
    IN  IF tree[node].back # None THEN Append(sf, tree[node].back) ELSE sf

PushChildrenFrontOnly(s, node) ==
    IF tree[node].front # None THEN Append(s, tree[node].front) ELSE s

PushChildren(s, node) ==
    LET sb == IF tree[node].back # None THEN Append(s, tree[node].back) ELSE s
    IN  IF tree[node].front # None THEN Append(sb, tree[node].front) ELSE sb

\* The flat record of a node, given where its coplanar run starts.
FlatNodeChildrenSwapped(node, start) ==
    [plane_face_idx |-> find_face_idx(flat.faces, FaceValue(tree[node].plane_face)),
     faces_on_plane_count |-> Len(tree[node].faces_on_plane),
     faces_on_plane_idx_start |-> start,
     front_node_idx |-> ChildIdx(node_to_idx, tree[node].back),
     back_node_idx |-> ChildIdx(node_to_idx, tree[node].front)]

FlatNodeRunPerNode(node, start) ==
    [plane_face_idx |-> find_face_idx(flat.faces, FaceValue(tree[node].plane_face)),
     faces_on_plane_count |-> Len(tree[node].faces_on_plane),
     faces_on_plane_idx_start |-> 0,
     front_node_idx |-> ChildIdx(node_to_idx, tree[node].front),
     back_node_idx |-> ChildIdx(node_to_idx, tree[node].back)]

FlatNode(node, start) ==
    [plane_face_idx |-> find_face_idx(flat.faces, FaceValue(tree[node].plane_face)),
     faces_on_plane_count |-> Len(tree[node].faces_on_plane),
     faces_on_plane_idx_start |-> start,
     front_node_idx |-> ChildIdx(node_to_idx, tree[node].front),
     back_node_idx |-> ChildIdx(node_to_idx, tree[node].back)]

\* One iteration of the second (fill) pass.
FillStepDrainingLists ==
    /\ pc = "fill"
    /\ fstack # <<>>
    /\ LET node == fstack[Len(fstack)]
           s0   == SubSeq(fstack, 1, Len(fstack) - 1)
       IN  IF node = None
           THEN /\ fstack' = s0
                /\ UNCHANGED <<flat, tree>>
           ELSE LET node_idx == node_to_idx[id(node)]
                IN  IF flat.nodes[node_idx + 1] # Reserved
                    THEN /\ fstack' = s0
                         /\ UNCHANGED <<flat, tree>>
                    ELSE /\ flat' =
                              [flat EXCEPT
                                 !.faces_on_plane = @ \o tree[node].faces_on_plane,
                                 !.nodes[node_idx + 1] =
                                     FlatNode(node, Len(flat.faces_on_plane))]
                         /\ fstack' = PushChildren(s0, node)
                         /\ tree' = [tree EXCEPT ![node].faces_on_plane = <<>>]
    /\ UNCHANGED <<vertices, faces, pc, err, planes, stack, root,
                   nodes_created, alloc, ids, node_to_idx, queue, idx, out,
                   run, first>>

FillStep ==
    /\ pc = "fill"
    /\ fstack # <<>>
    /\ LET node == fstack[Len(fstack)]
           s0   == SubSeq(fstack, 1, Len(fstack) - 1)
       IN  IF node = None
           THEN /\ fstack' = s0
                /\ UNCHANGED flat
           ELSE LET node_idx == node_to_idx[id(node)]
                IN  IF flat.nodes[node_idx + 1] # Reserved
                    THEN /\ fstack' = s0
                         /\ UNCHANGED flat
                    ELSE /\ flat' =
                              [flat EXCEPT
                                 !.faces_on_plane = @ \o tree[node].faces_on_plane,
                                 !.nodes[node_idx + 1] =
                                     FlatNode(node, Len(flat.faces_on_plane))]
                         /\ fstack' = PushChildren(s0, node)
    /\ UNCHANGED <<vertices, faces, pc, err, planes, stack, tree, root,
                   nodes_created, alloc, ids, node_to_idx, queue, idx, out,
                   run, first>>

\* The second pass ends: flatten returns 0.
FillDone ==
    /\ pc = "fill"
    /\ fstack = <<>>
    /\ pc' = "flat"
    /\ UNCHANGED <<vertices, faces, err, planes, stack, tree, root,
                   nodes_created, alloc, ids, flat, node_to_idx, queue, idx,
                   fstack, out, run, first>>

\* What flatten returns for the tree it was given: -1 for no tree, else the
\* root index 0.
flatten_returns(r) == IF r = None THEN -1 ELSE 0

----------------------------------------------------------------------------
(* Binary Encoder: write_bsp_binary *)

RECURSIVE Pow2(_)
Pow2(n) == IF n = 0 THEN 1 ELSE 2 * Pow2(n - 1)

\* struct.pack range checks and little-endian encodings.  A field is
\* <<format, value>> with format "H" (u16), "h" (i16), "B" (u8), "f" (f32).
Fits(fld) ==
    CASE fld[1] = "H" -> fld[2] >= 0 /\ fld[2] <= 65535
      [] fld[1] = "h" -> fld[2] >= -32768 /\ fld[2] <= 32767
      [] fld[1] = "B" -> fld[2] >= 0 /\ fld[2] <= 255
      [] OTHER -> TRUE

U16(v) == << v % 256, (v \div 256) % 256 >>

\* IEEE-754 single of an integer v, |v| < 2^24, little-endian.
F32(v) ==
    IF v = 0 THEN <<0, 0, 0, 0>>
    ELSE LET a    == IF v < 0 THEN 0 - v ELSE v
             e    == CHOOSE k \in 0..23 : Pow2(k) <= a /\ a < Pow2(k + 1)
             mant == (a - Pow2(e)) * Pow2(23 - e)
             ex   == e + 127
             sign == IF v < 0 THEN 1 ELSE 0
         IN  << mant % 256, (mant \div 256) % 256,
                (ex % 2) * 128 + (mant \div 65536),
                sign * 128 + (ex \div 2) >>

Pack(fld) ==
    CASE fld[1] = "H" -> U16(fld[2])
      [] fld[1] = "h" -> U16(IF fld[2] < 0 THEN fld[2] + 65536 ELSE fld[2])
      [] fld[1] = "B" -> << fld[2] >>
      [] OTHER -> F32(fld[2])

RECURSIVE Flatten(_)
Flatten(ss) == IF ss = <<>> THEN <<>> ELSE Head(ss) \o Flatten(Tail(ss))

\* The f.write(struct.pack(...)) calls of write_bsp_binary, in order; each
\* call is the sequence of the fields it packs.
HeaderCallsCountingSlots(vs, fs, fb) ==
    << << <<"H", Len(vs)>>, <<"H", Len(fs) + 1>>, <<"H", Len(fb.nodes) + 1>> >> >>

HeaderCalls(vs, fs, fb) ==
    << << <<"H", Len(vs)>>, <<"H", Len(fs)>>, <<"H", Len(fb.nodes)>> >> >>

VertexCalls(vs) ==
    [i \in DOMAIN vs |-> << <<"f", vs[i][1]>>, <<"f", vs[i][2]>>, <<"f", vs[i][3]>> >>]

FaceCalls(fs) ==
    Flatten([i \in DOMAIN fs |->
                << << <<"B", Len(fs[i])>> >> >>
                \o [k \in DOMAIN fs[i] |-> << <<"H", fs[i][k]>> >>]])

NodeCalls(fb) ==
    Flatten([i \in DOMAIN fb.nodes |->
                << << <<"H", fb.nodes[i].plane_face_idx>> >>,
                   << <<"H", fb.nodes[i].faces_on_plane_count>> >>,
                   << <<"H", fb.nodes[i].faces_on_plane_idx_start>> >>,
                   << <<"h", fb.nodes[i].front_node_idx>> >>,
                   << <<"h", fb.nodes[i].back_node_idx>> >> >>])

\* The entry written for a face of flat_bsp.faces_on_plane.
TableEntryByPosition(fb, face) == face

TableEntry(fb, face) == find_face_idx(fb.faces, FaceValue(face))

TableCalls(fb) ==
    [i \in DOMAIN fb.faces_on_plane |->
        << <<"H", TableEntry(fb, fb.faces_on_plane[i])>> >>]

WriteCalls(vs, fs, fb) ==
    HeaderCalls(vs, fs, fb) \o VertexCalls(vs) \o FaceCalls(fs)
        \o NodeCalls(fb) \o TableCalls(fb)

CallFits(call) == \A k \in DOMAIN call : Fits(call[k])

\* The number of calls that succeed before the first struct.error.
GoodCalls(calls) ==
    IF \A i \in DOMAIN calls : CallFits(calls[i]) THEN Len(calls)
    ELSE (CHOOSE i \in DOMAIN calls :
             /\ ~CallFits(calls[i])
             /\ \A j \in 1..(i - 1) : CallFits(calls[j])) - 1

PackCall(call) == Flatten([k \in DOMAIN call |-> Pack(call[k])])

\* The bytes in the file after the calls that succeeded.
Written(calls) ==
    Flatten([i \in 1..GoodCalls(calls) |-> PackCall(calls[i])])

\* write_bsp_binary: the file holds what was written before the first
\* struct.error, if any.
Write ==
    /\ pc = "flat"
    /\ LET calls == WriteCalls(vertices, faces, flat)
       IN  /\ out' = Written(calls)
           /\ IF GoodCalls(calls) = Len(calls)
              THEN pc' = "done" /\ UNCHANGED err
              ELSE pc' = "failed" /\ err' = "struct.error"
    /\ UNCHANGED <<vertices, faces, planes, stack, tree, root, nodes_created,
                   alloc, ids, flat, node_to_idx, queue, idx, fstack, run,
                   first>>

\* A second complete run on the same vertex and face sequences: the results
\* of the first are kept aside, every object of the first run is dropped.
Restart ==
    /\ pc = "done"
    /\ run = 1
    /\ run' = 2
    /\ first' = [tree |-> tree, root |-> root, nodes |-> flat.nodes,
                 faces_on_plane |-> flat.faces_on_plane, out |-> out]
    /\ alloc' \in {"up", "down"}
    /\ pc' = "start"
    /\ planes' = <<>>
    /\ stack' = <<>>
    /\ tree' = <<>>
    /\ root' = None
    /\ nodes_created' = 0
    /\ ids' = <<>>
    /\ node_to_idx' = [a \in {} |-> 0]
    /\ queue' = <<>>
    /\ idx' = 0
    /\ fstack' = <<>>
    /\ out' = <<>>
    /\ UNCHANGED <<vertices, faces, err, flat>>

----------------------------------------------------------------------------
(* The two-script pipeline: build_bsp.py, then export_bsp_bin.py *)

\* The interpreter's recursion limit, in nested calls of build_bsp (1000
\* frames by default), scaled to the face lists: a chain of four nodes needs
\* a fifth call, for its empty front list, and exceeds it.
RecursionLimit == 4

\* The list build_bsp of build_bsp.py appends a face of class cls to.
ListOf(cls) == IF cls = "spanning" THEN "front" ELSE cls

\* build_bsp of build_bsp.py on the list fl of face objects, at call depth
\* `depth`, allocating its nodes in `heap`: the node it returns, or the
\* exception it raises.
RECURSIVE RecBuild(_, _, _)
RecBuild(fl, heap, depth) ==
    IF depth > RecursionLimit
    THEN [err |-> "RecursionError", heap |-> heap, node |-> None]
    ELSE IF fl = <<>>
    THEN [err |-> "none", heap |-> heap, node |-> None]
    ELSE IF Len(faces[fl[1] + 1]) < 3
    THEN [err |-> "ValueError", heap |-> heap, node |-> None]
    ELSE
      LET plane_face == fl[1]
          plane == face_plane(faces[plane_face + 1], vertices)
          cls(fi) == ListOf(classify_face(faces[fi + 1], plane, vertices))
          faces_on    == SelectSeq(fl, LAMBDA fi : cls(fi) = "on")
          faces_front == SelectSeq(fl, LAMBDA fi : cls(fi) = "front")
          faces_back  == SelectSeq(fl, LAMBDA fi : cls(fi) = "back")
          h  == Len(heap) + 1
          h1 == Append(heap, [NewNode EXCEPT !.plane_face = plane_face,
                                             !.faces_on_plane = faces_on])
          rf == RecBuild(faces_front, h1, depth + 1)
          rb == RecBuild(faces_back, rf.heap, depth + 1)
      IN  IF rf.err # "none" THEN rf
          ELSE IF rb.err # "none" THEN rb
          ELSE [err |-> "none",
                heap |-> [rb.heap EXCEPT ![h].front = rf.node,
                                         ![h].back = rb.node],
                node |-> h]

\* build_bsp.py, main: the tree of the whole face list, exported as JSON.
LegacyBuild ==
    /\ pc = "start"
    /\ run = 1
    /\ LET r == RecBuild([i \in DOMAIN faces |-> i - 1], <<>>, 1)
       IN  IF r.err # "none"
           THEN /\ pc' = "xfailed"
                /\ err' = r.err
                /\ UNCHANGED <<tree, root, ids>>
           ELSE /\ pc' = "json"
                /\ tree' = r.heap
                /\ root' = r.node
                /\ ids' = [h \in DOMAIN r.heap |-> NewAddr(h)]
                /\ UNCHANGED err
    /\ UNCHANGED <<vertices, faces, planes, stack, nodes_created, alloc, flat,
                   node_to_idx, queue, idx, fstack, out, run, first>>

\* The face array a JSON file can hold beside the tree: the list the tree
\* was built from, or that list with one face missing.
DropAt(s, k) == SubSeq(s, 1, k - 1) \o SubSeq(s, k + 1, Len(s))

JsonFaces == {faces} \cup { DropAt(faces, k) : k \in DOMAIN faces }

\* FlatBSP.flatten of export_bsp_bin.py on `node`, at call depth `depth`; st
\* is the instance (nodes, faces_on_plane, faces, node_indices).  Returns the
\* instance, the index of the node, and the exception raised, if any.
RECURSIVE XFlatten(_, _, _)
XFlatten(node, st, depth) ==
    IF depth > RecursionLimit
    THEN [st |-> st, idx |-> -1, err |-> "RecursionError"]
    ELSE IF node = None THEN [st |-> st, idx |-> -1, err |-> "none"]
    ELSE
      LET i   == Len(st.nodes)
          st1 == [st EXCEPT
                    !.node_indices = [a \in DOMAIN @ \cup {id(node)} |->
                                         IF a = id(node) THEN i ELSE @[a]],
                    !.nodes = Append(@, Reserved),
                    !.faces_on_plane = @ \o tree[node].faces_on_plane]
          f   == XFlatten(tree[node].front, st1, depth + 1)
          b   == XFlatten(tree[node].back, f.st, depth + 1)
          rec == [plane_face_idx |->
                      find_face_idx(st.faces, FaceValue(tree[node].plane_face)),
                  faces_on_plane_count |-> Len(tree[node].faces_on_plane),
                  faces_on_plane_idx_start |-> Len(st.faces_on_plane),
                  front_node_idx |-> f.idx,
                  back_node_idx |-> b.idx]
      IN  IF f.err # "none" THEN f
          ELSE IF b.err # "none" THEN b
          ELSE [st |-> [b.st EXCEPT !.nodes[i + 1] = rec], idx |-> i,
                err |-> "none"]

\* export_bsp_bin.py, main: load the JSON file, FlatBSP().run(tree, faces).
LegacyFlatten ==
    /\ pc = "json"
    /\ \E jf \in JsonFaces :
         LET r == XFlatten(root, [nodes |-> <<>>, faces_on_plane |-> <<>>,
                                  faces |-> jf,
                                  node_indices |-> [a \in {} |-> 0]], 1)
         IN  /\ flat' = [nodes |-> r.st.nodes,
                         faces_on_plane |-> r.st.faces_on_plane,
                         faces |-> jf]
             /\ node_to_idx' = r.st.node_indices
             /\ IF r.err = "none"
                THEN pc' = "xflat" /\ UNCHANGED err
                ELSE pc' = "xfailed" /\ err' = r.err
    /\ UNCHANGED <<vertices, faces, planes, stack, tree, root,
                   nodes_created, alloc, ids, queue, idx, fstack, out, run,
                   first>>

\* write_bsp_bin of export_bsp_bin.py, with the JSON file's face array.
LegacyWrite ==
    /\ pc = "xflat"
    /\ LET calls == WriteCalls(vertices, flat.faces, flat)
       IN  /\ out' = Written(calls)
           /\ IF GoodCalls(calls) = Len(calls)
              THEN pc' = "xdone" /\ UNCHANGED err
              ELSE pc' = "xfailed" /\ err' = "struct.error"
    /\ UNCHANGED <<vertices, faces, planes, stack, tree, root, nodes_created,
                   alloc, ids, flat, node_to_idx, queue, idx, fstack, run,
                   first>>

----------------------------------------------------------------------------
(* Specification *)

Init ==
    /\ vertices = VertexList
    /\ faces \in FaceLists
    /\ alloc \in {"up", "down"}
    /\ pc = "start"
    /\ err = "none"
    /\ planes = <<>>
    /\ stack = <<>>
    /\ tree = <<>>
    /\ root = None
    /\ nodes_created = 0
    /\ ids = <<>>
    /\ flat = [nodes |-> <<>>, faces_on_plane |-> <<>>, faces |-> <<>>]
    /\ node_to_idx = [a \in {} |-> 0]
    /\ queue = <<>>
    /\ idx = 0
    /\ fstack = <<>>
    /\ out = <<>>
    /\ run = 1
    /\ first = <<>>

Next ==
    \/ BuildStart
    \/ BuildStep
    \/ BuildReturn
    \/ FlatStart
    \/ IndexStep
    \/ IndexDone
    \/ FillStep
    \/ FillDone
    \/ Write
    \/ LegacyBuild
    \/ LegacyFlatten
    \/ LegacyWrite

Spec == Init /\ [][Next]_vars

\* Two runs of the pipeline, one after the other, on the same input.
NextTwice == Next \/ Restart

SpecTwice == Init /\ [][NextTwice]_vars

\* The interpreter keeps running the loop of build_bsp until it returns.
FairSpec == Spec /\ WF_vars(BuildStep) /\ WF_vars(BuildReturn)

----------------------------------------------------------------------------
(* write_bsp_binary on trees of tens of thousands of nodes *)

\* The largest count a '<H' header field holds.
HeaderMax == 65535

\* The large inputs: n triangles [0, 1, k + 2], k = 0..n-1, each in its own
\* plane through the edge (vertex 0, vertex 1), listed by increasing angle,
\* so that every later face is in front of every earlier one and build_bsp
\* returns a chain of n nodes linked by 'front'.  The lists themselves are
\* not held in the state, only their lengths.
PencilCounts == {1, 2, 3, 4, 32767, 32768, 32769, 65533, 65534}

PencilVertexCount(n) == n + 2

PencilFaceCount(n) == n

\* The record flatten stores at position i for the chain of n nodes.
ChainNode(n, i) ==
    [plane_face_idx |-> i,
     faces_on_plane_count |-> 1,
     faces_on_plane_idx_start |-> i,
     front_node_idx |-> IF i + 1 < n THEN i + 1 ELSE -1,
     back_node_idx |-> -1]

\* The pack calls of one iteration of the node loop, for the node at i.
ChainNodeCalls(n, i) == NodeCalls([nodes |-> << ChainNode(n, i) >>])

\* write_bsp_binary up to the node loop: header, vertices (floats, always
\* packed), faces.
WriteHead ==
    /\ pc = "flat"
    /\ LET n == nodes_created
       IN  IF /\ CallFits(<< <<"H", PencilVertexCount(n)>>,
                             <<"H", PencilFaceCount(n)>>, <<"H", n>> >>)
              /\ \A k \in {0, n - 1} :
                     /\ CallFits(<< <<"B", 3>> >>)
                     /\ \A v \in {0, 1, k + 2} : CallFits(<< <<"H", v>> >>)
           THEN /\ pc' = "nodes"
                /\ idx' = 0
                /\ UNCHANGED err
           ELSE /\ pc' = "failed"
                /\ err' = "struct.error"
                /\ UNCHANGED idx
    /\ UNCHANGED <<vertices, faces, planes, stack, tree, root, nodes_created,
                   alloc, ids, flat, node_to_idx, queue, fstack, out, run,
                   first>>

\* One iteration of `for node in flat_bsp.nodes`; out holds the bytes this
\* iteration appended to the file.
WriteNodeRecord ==
    /\ pc = "nodes"
    /\ idx < nodes_created
    /\ LET calls == ChainNodeCalls(nodes_created, idx)
       IN  /\ out' = Written(calls)
           /\ IF GoodCalls(calls) = Len(calls)
              THEN /\ idx' = idx + 1
                   /\ UNCHANGED <<pc, err>>
              ELSE /\ pc' = "failed"
                   /\ err' = "struct.error"
                   /\ UNCHANGED idx
    /\ UNCHANGED <<vertices, faces, planes, stack, tree, root, nodes_created,
                   alloc, ids, flat, node_to_idx, queue, fstack, run, first>>

\* The node loop is over; the coplanar table holds the positions 0..n-1.
WriteTable ==
    /\ pc = "nodes"
    /\ idx = nodes_created
    /\ IF \A k \in {0, nodes_created - 1} : CallFits(<< <<"H", k>> >>)
       THEN pc' = "done" /\ UNCHANGED err
       ELSE pc' = "failed" /\ err' = "struct.error"
    /\ UNCHANGED <<vertices, faces, planes, stack, tree, root, nodes_created,
                   alloc, ids, flat, node_to_idx, queue, idx, fstack, out, run,
                   first>>

WidthInit ==
    /\ vertices = <<>>
    /\ faces = <<>>
    /\ alloc = "up"
    /\ pc = "flat"
    /\ err = "none"
    /\ planes = <<>>
    /\ stack = <<>>
    /\ tree = <<>>
    /\ root = None
    /\ nodes_created \in PencilCounts
    /\ ids = <<>>
    /\ flat = [nodes |-> <<>>, faces_on_plane |-> <<>>, faces |-> <<>>]
    /\ node_to_idx = [a \in {} |-> 0]
    /\ queue = <<>>
    /\ idx = 0
    /\ fstack = <<>>
    /\ out = <<>>
    /\ run = 1
    /\ first = <<>>

WidthNext ==
    \/ WriteHead
    \/ WriteNodeRecord
    \/ WriteTable

WidthSpec == WidthInit /\ [][WidthNext]_vars

----------------------------------------------------------------------------
(* Reading a written file back, by the documented layout *)

U16At(b, p) == b[p] + 256 * b[p + 1]

I16At(b, p) == IF U16At(b, p) >= 32768 THEN U16At(b, p) - 65536 ELSE U16At(b, p)

RECURSIVE ParseFaces(_, _, _)
ParseFaces(b, p, n) ==
    IF n = 0 THEN [faces |-> <<>>, next |-> p]
    ELSE LET cnt  == b[p]
             f    == [k \in 1..cnt |-> U16At(b, p + 1 + 2 * (k - 1))]
             more == ParseFaces(b, p + 1 + 2 * cnt, n - 1)
         IN  [faces |-> <<f>> \o more.faces, next |-> more.next]

ParseNode(b, p) ==
    [plane_face_idx |-> U16At(b, p),
     faces_on_plane_count |-> U16At(b, p + 2),
     faces_on_plane_idx_start |-> U16At(b, p + 4),
     front_node_idx |-> I16At(b, p + 6),
     back_node_idx |-> I16At(b, p + 8)]

Decode(b) ==
    LET vc == U16At(b, 1)
        fc == U16At(b, 3)
        nc == U16At(b, 5)
        pf == ParseFaces(b, 7 + 12 * vc, fc)
        pn == pf.next
        pt == pn + 10 * nc
    IN  [vertexCount |-> vc, faceCount |-> fc, nodeCount |-> nc,
         faces |-> pf.faces,
         nodes |-> [i \in 1..nc |-> ParseNode(b, pn + 10 * (i - 1))],
         table |-> [k \in 1..((Len(b) + 1 - pt) \div 2) |->
                       U16At(b, pt + 2 * (k - 1))]]

----------------------------------------------------------------------------
(* Properties *)

\* build_bsp has returned a tree (or None).
Built == pc \in {"built", "index", "fill", "flat", "done",
                "json", "xflat", "xdone"}

FacePositions == 0..(Len(faces) - 1)

RECURSIVE SubtreeNodes(_)
SubtreeNodes(h) ==
    IF h = None THEN {}
    ELSE {h} \cup SubtreeNodes(tree[h].front) \cup SubtreeNodes(tree[h].back)

NodeFaces(h) == Range(tree[h].faces_on_plane)

SubtreeFaces(h) == UNION { NodeFaces(n) : n \in SubtreeNodes(h) }

\* The places <<node, k>> of the linked tree that hold face position fi.
Slots(fi) ==
    UNION { { <<h, k>> : k \in { j \in DOMAIN tree[h].faces_on_plane :
                                   tree[h].faces_on_plane[j] = fi } } :
            h \in SubtreeNodes(root) }

\* The plane of node h and the class of face fi against it, by classify_face.
PlaneOf(h) == face_plane(faces[tree[h].plane_face + 1], vertices)

ClassAt(fi, h) == classify_face(faces[fi + 1], PlaneOf(h), vertices)

\* C1: after build_bsp returns, every face position of the input is held by
\* the coplanar list of exactly one node of the tree, exactly once.
C1_PartitionComplete ==
    Built => \A fi \in FacePositions : Cardinality(Slots(fi)) = 1

C1_Witness ==
    /\ pc = "built"
    /\ Len(faces) = 3
    /\ Len(tree) = 2
    /\ \E h \in SubtreeNodes(root) : Len(tree[h].faces_on_plane) = 2
    /\ \E h \in SubtreeNodes(root), fi \in FacePositions :
           ClassAt(fi, h) = "spanning" /\ fi # tree[h].plane_face

\* C2: in the written file every canonical index 0..faceCount-1 is exactly
\* one entry of the coplanar table, inside exactly one node's run.
C2_EachIndexOnceInTable ==
    (pc = "done" /\ faces # <<>>) =>
        LET d == Decode(out)
        IN  \A fi \in FacePositions :
               /\ Cardinality({ k \in DOMAIN d.table : d.table[k] = fi }) = 1
               /\ Cardinality({ n \in DOMAIN d.nodes :
                     \E k \in 1..d.nodes[n].faces_on_plane_count :
                        d.table[d.nodes[n].faces_on_plane_idx_start + k] = fi }) = 1

\* C3: there are never more nodes than faces, the written nodeCount
\* included, and the splitting face of a node is in no pending partition.
C3_NodeCountAtMostFaceCount ==
    /\ Len(tree) <= Len(faces)
    /\ nodes_created <= Len(faces)
    /\ \A t \in DOMAIN stack, h \in DOMAIN tree :
           tree[h].plane_face \notin Range(stack[t].idx_list)
    /\ pc = "done" => /\ Decode(out).nodeCount = Len(tree)
                      /\ Decode(out).nodeCount <= Decode(out).faceCount

C3_Witness ==
    /\ pc = "done"
    /\ Len(faces) = 3
    /\ Decode(out).nodeCount = 3

\* C4: the coplanar list of every node is non-empty and holds the node's
\* own splitting face, however that face classifies against its own plane.
C4_SplitterInCoplanarSet ==
    \A h \in DOMAIN tree :
        /\ tree[h].faces_on_plane # <<>>
        /\ tree[h].plane_face \in FacePositions
        /\ tree[h].plane_face \in NodeFaces(h)

C4_Witness ==
    /\ Built
    /\ \E h \in SubtreeNodes(root) : ClassAt(tree[h].plane_face, h) = "front"
    /\ \E h \in SubtreeNodes(root) : ClassAt(tree[h].plane_face, h) = "spanning"

\* C5 as claimed: every face of a node's partition that has a vertex in
\* front of the node's plane and a vertex behind it is in the node's front
\* subtree and not in its back subtree.
C5_SpanningGoesFront ==
    Built => \A h \in SubtreeNodes(root) : \A fi \in SubtreeFaces(h) :
                ClassAt(fi, h) = "spanning" =>
                    /\ fi \in SubtreeFaces(tree[h].front)
                    /\ fi \notin SubtreeFaces(tree[h].back)

\* C5 amended: every face of a node's partition OTHER THAN THE NODE'S
\* SPLITTING FACE that has a vertex in front of the node's plane and a vertex
\* behind it is, whole, in the node's front subtree and nowhere else.
C5_SpanningOtherThanSplitterGoesFront ==
    Built => \A h \in SubtreeNodes(root) : \A fi \in SubtreeFaces(h) :
                (ClassAt(fi, h) = "spanning" /\ fi # tree[h].plane_face) =>
                    /\ fi \in SubtreeFaces(tree[h].front)
                    /\ fi \notin SubtreeFaces(tree[h].back)
                    /\ fi \notin NodeFaces(h)
                    /\ Cardinality(Slots(fi)) = 1

C5_Witness ==
    /\ Built
    /\ \E h \in SubtreeNodes(root) : \E fi \in SubtreeFaces(tree[h].front) :
           /\ ClassAt(fi, h) = "spanning"
           /\ tree[h].back # None

\* The faces of node h's partition that were classified, by class.
ClassifiedAs(h, classes) ==
    { fi \in SubtreeFaces(h) \ {tree[h].plane_face} : ClassAt(fi, h) \in classes }

\* C6: when build_bsp has finished, a node has no front child exactly when
\* no classified face of its partition was front or spanning, no back child
\* exactly when none was back, and a child's partition is exactly those faces.
C6_ChildAbsentIffSideEmpty ==
    Built => \A h \in SubtreeNodes(root) :
        /\ (tree[h].front = None) <=> (ClassifiedAs(h, {"front", "spanning"}) = {})
        /\ (tree[h].back = None) <=> (ClassifiedAs(h, {"back"}) = {})
        /\ SubtreeFaces(tree[h].front) = ClassifiedAs(h, {"front", "spanning"})
        /\ SubtreeFaces(tree[h].back) = ClassifiedAs(h, {"back"})
        /\ tree[h].front # None => tree[h].front \in DOMAIN tree
        /\ tree[h].back # None => tree[h].back \in DOMAIN tree

C6_Witness ==
    /\ Built
    /\ \E h \in SubtreeNodes(root) : tree[h].front # None /\ tree[h].back = None
    /\ \E h \in SubtreeNodes(root) : tree[h].front = None /\ tree[h].back # None

\* C7: the plane_face_idx flatten stores for a node is the position in the
\* input list of the face the builder chose as its splitter, never 0xFFFF.
C7_PlaneFaceIdxIsSplitterPosition ==
    pc \in {"flat", "done"} =>
        \A h \in SubtreeNodes(root) :
            LET fn == flat.nodes[node_to_idx[id(h)] + 1]
            IN  /\ fn.plane_face_idx = tree[h].plane_face
                /\ fn.plane_face_idx # Sentinel

\* C8: a finished file never holds the 0xFFFF sentinel, neither as a node's
\* planeFaceIdx nor as an entry of the coplanar table: a failed lookup ends
\* the run with an error instead.
C8_NoSentinelInFinishedFile ==
    pc \in {"done", "xdone"} =>
        LET d == Decode(out)
        IN  /\ \A n \in DOMAIN d.nodes : d.nodes[n].plane_face_idx # Sentinel
            /\ \A k \in DOMAIN d.table : d.table[k] # Sentinel

\* The flat position of tree node h.
PosOf(h) == node_to_idx[id(h)]

\* The values of the faces a decoded file lists in the run of node record n.
RunValues(d, n) ==
    [k \in 1..n.faces_on_plane_count |->
        d.faces[d.table[n.faces_on_plane_idx_start + k] + 1]]

\* C9: decoding the written file by the documented layout gives back the
\* face array and a node graph isomorphic to the built tree: one record per
\* node, with the node's splitting face, its coplanar faces, and its
\* front/back children (-1 for an absent child).
C9_RoundTrip ==
    (pc = "done" \/ (pc = "xdone" /\ flat.faces = faces)) =>
        LET d == Decode(out)
        IN  /\ d.vertexCount = Len(vertices)
            /\ d.faces = faces
            /\ d.nodeCount = Cardinality(SubtreeNodes(root))
            /\ Len(d.table) = Len(flat.faces_on_plane)
            /\ \A h, g \in SubtreeNodes(root) : h # g => PosOf(h) # PosOf(g)
            /\ root # None => PosOf(root) = 0
            /\ \A h \in SubtreeNodes(root) :
                 LET n == d.nodes[PosOf(h) + 1]
                 IN  /\ d.faces[n.plane_face_idx + 1] = FaceValue(tree[h].plane_face)
                     /\ RunValues(d, n) =
                            [k \in DOMAIN tree[h].faces_on_plane |->
                                FaceValue(tree[h].faces_on_plane[k])]
                     /\ n.front_node_idx =
                            (IF tree[h].front = None THEN -1 ELSE PosOf(tree[h].front))
                     /\ n.back_node_idx =
                            (IF tree[h].back = None THEN -1 ELSE PosOf(tree[h].back))

C9_Witness ==
    /\ pc = "done"
    /\ Len(tree) = 3
    /\ tree[root].front # None
    /\ tree[root].back # None
    /\ Decode(out).nodes[1].front_node_idx = 1
    /\ Decode(out).nodes[1].back_node_idx = 2
    /\ Decode(out).nodes[2].front_node_idx = -1

\* C10: a second complete run on the same vertex and face sequences, with
\* other object addresses and a fresh FlatBSP, gives the same tree, the same
\* node array, the same coplanar table and the same bytes as the first.
C10_Deterministic ==
    run = 2 =>
        /\ pc \in {"built", "index", "fill", "flat", "done"} =>
               tree = first.tree /\ root = first.root
        /\ pc \in {"flat", "done"} =>
               /\ flat.nodes = first.nodes
               /\ flat.faces_on_plane = first.faces_on_plane
        /\ pc = "done" => out = first.out
        /\ pc # "failed"

C10_Witness ==
    /\ run = 2
    /\ pc = "done"
    /\ Len(tree) = 3
    /\ alloc = "down"
    /\ ids # [h \in DOMAIN tree |-> h]
    /\ out = first.out
    /\ Len(out) > 0

\* C11: for an empty face list build_bsp returns None without entering its
\* loop, flatten returns -1 and leaves the node array and the coplanar table
\* empty, and the written file is the header with faceCount 0 and nodeCount 0
\* followed by the vertex records only.
C11_EmptyFaceList ==
    faces = <<>> =>
        /\ pc \notin {"build", "index", "fill", "failed", "xfailed"}
        /\ tree = <<>> /\ stack = <<>> /\ nodes_created = 0
        /\ Built => root = None
        /\ pc \in {"flat", "done", "xflat", "xdone"} =>
               /\ flatten_returns(root) = -1
               /\ flat.nodes = <<>>
               /\ flat.faces_on_plane = <<>>
        /\ pc \in {"done", "xdone"} =>
               /\ Len(out) = 6 + 12 * Len(vertices)
               /\ U16At(out, 3) = 0
               /\ U16At(out, 5) = 0
               /\ Decode(out).faceCount = 0
               /\ Decode(out).nodeCount = 0
               /\ Decode(out).nodes = <<>>
               /\ Decode(out).table = <<>>

C11_Witness ==
    /\ faces = <<>>
    /\ pc = "done"
    /\ root = None
    /\ Len(out) = 6 + 12 * Len(vertices)
    /\ SubSeq(out, 3, 6) = <<0, 0, 0, 0>>

\* The first three vertices of the face are collinear or coincident.
Collinear(face) ==
    /\ Len(face) >= 3
    /\ Cross(Sub(Vtx(vertices, face[2]), Vtx(vertices, face[1])),
             Sub(Vtx(vertices, face[3]), Vtx(vertices, face[1]))) = <<0, 0, 0>>

\* C12: a face list whose faces all have three vertices or more and one of
\* whose faces has collinear first three vertices never makes the build fail:
\* the plane of such a face is the default normal (0,0,1) through its first
\* vertex, build_bsp returns a tree, and at a node split by such a face the
\* other faces of the partition are in the front subtree when front or
\* spanning, in the back subtree when back, in the coplanar list when on.
C12_CollinearFaceNeverFailsBuild ==
    ( /\ \A i \in DOMAIN faces : Len(faces[i]) >= 3
      /\ \E i \in DOMAIN faces : Collinear(faces[i]) ) =>
        /\ \A i \in DOMAIN planes : Collinear(faces[i]) =>
               planes[i] = [point |-> Vtx(vertices, faces[i][1]),
                            normal |-> <<0, 0, 1>>, normsq |-> 1]
        /\ ~(pc \in {"failed", "xfailed"}
               /\ err \in {"ValueError", "RecursionError"})
        /\ Built => \A h \in SubtreeNodes(root) :
               Collinear(faces[tree[h].plane_face + 1]) =>
                   /\ SubtreeFaces(tree[h].front) =
                          ClassifiedAs(h, {"front", "spanning"})
                   /\ SubtreeFaces(tree[h].back) = ClassifiedAs(h, {"back"})
                   /\ NodeFaces(h) \ {tree[h].plane_face} =
                          ClassifiedAs(h, {"on"})

\* C13: when some face of the input list has fewer than three vertices, the
\* run can only end in the build, with ValueError: no tree is ever returned
\* and no byte of an output file is ever written.
C13_ShortFaceAbortsRun ==
    (\E i \in DOMAIN faces : Len(faces[i]) < 3) =>
        /\ pc \in {"start", "failed", "xfailed"}
        /\ pc \in {"failed", "xfailed"} => err = "ValueError"
        /\ tree = <<>>
        /\ root = None
        /\ out = <<>>

\* The children a node has, front before back.
ChildrenOf(h) ==
    (IF tree[h].front # None THEN <<tree[h].front>> ELSE <<>>)
        \o (IF tree[h].back # None THEN <<tree[h].back>> ELSE <<>>)

\* Breadth-first order from a level of nodes on: the level, then the levels
\* below it, each node's children front before back.
RECURSIVE LevelOrder(_)
LevelOrder(level) ==
    IF level = <<>> THEN <<>>
    ELSE level \o LevelOrder(Flatten([k \in DOMAIN level |-> ChildrenOf(level[k])]))

\* Depth-first pre-order, front subtree before back subtree.
RECURSIVE PreOrder(_)
PreOrder(h) ==
    IF h = None THEN <<>>
    ELSE <<h>> \o PreOrder(tree[h].front) \o PreOrder(tree[h].back)

\* The index map gives the k-th node of `order` the position k - 1, maps
\* nothing else, and the node array has one slot per node of the tree.
PositionsFollow(order) ==
    /\ Len(order) = Cardinality(SubtreeNodes(root))
    /\ Len(flat.nodes) = Len(order)
    /\ DOMAIN node_to_idx = { id(order[k]) : k \in DOMAIN order }
    /\ \A k \in DOMAIN order : node_to_idx[id(order[k])] = k - 1

\* C14: the indexing pass hands out the positions 0, 1, 2, ... without a gap
\* and without a repeat; when it is over the root has position 0 and the
\* nodes have the positions 0..N-1 in breadth-first order, front before back
\* (obj_to_bsp.py), in depth-first pre-order, front before back
\* (export_bsp_bin.py).
C14_DensePositionsInDiscoveryOrder ==
    /\ pc = "index" =>
           /\ idx = Len(flat.nodes)
           /\ Cardinality(DOMAIN node_to_idx) = idx
           /\ { node_to_idx[a] : a \in DOMAIN node_to_idx } = 0..(idx - 1)
    /\ (pc \in {"fill", "flat", "done"} /\ root # None) =>
           /\ PosOf(root) = 0
           /\ PositionsFollow(LevelOrder(<<root>>))
    /\ (pc \in {"xflat", "xdone"} /\ root # None) =>
           /\ PosOf(root) = 0
           /\ PositionsFollow(PreOrder(root))

C14_Witness ==
    /\ pc = "flat"
    /\ Len(tree) = 4
    /\ LevelOrder(<<root>>) # PreOrder(root)
    /\ tree[root].front # None
    /\ tree[root].back # None
    /\ tree[tree[root].front].back # None
    /\ PosOf(tree[root].back) = 2
    /\ PosOf(tree[tree[root].front].back) = 3

\* The flat positions reached from position i by following front_node_idx
\* and back_node_idx.
RECURSIVE FlatReach(_)
FlatReach(i) ==
    IF i = -1 THEN {}
    ELSE {i} \cup FlatReach(flat.nodes[i + 1].front_node_idx)
             \cup FlatReach(flat.nodes[i + 1].back_node_idx)

\* C15: after flatten, the record at the position of tree node h has as
\* front_node_idx the position of h's front child, -1 when h has none, and
\* likewise back_node_idx; the positions reached from 0 by following the
\* indices are exactly the positions of the nodes of the linked tree.
C15_ChildIndicesFollowTree ==
    (pc \in {"flat", "done", "xflat", "xdone"} /\ root # None) =>
        /\ \A h \in SubtreeNodes(root) :
               /\ flat.nodes[PosOf(h) + 1].front_node_idx =
                      (IF tree[h].front = None THEN -1 ELSE PosOf(tree[h].front))
               /\ flat.nodes[PosOf(h) + 1].back_node_idx =
                      (IF tree[h].back = None THEN -1 ELSE PosOf(tree[h].back))
        /\ FlatReach(0) = { PosOf(h) : h \in SubtreeNodes(root) }
        /\ FlatReach(0) = 0..(Len(flat.nodes) - 1)

C15_Witness ==
    /\ pc = "flat"
    /\ Len(flat.nodes) = 4
    /\ LevelOrder(<<root>>) # PreOrder(root)
    /\ flat.nodes[1].front_node_idx = 1
    /\ flat.nodes[1].back_node_idx = 2
    /\ flat.nodes[2].front_node_idx = -1
    /\ flat.nodes[2].back_node_idx = 3
    /\ FlatReach(0) = 0..3

\* The slots of the node array that hold a record, and the places of the
\* coplanar table a record's run covers.
FilledSlots == { i \in DOMAIN flat.nodes : flat.nodes[i] # Reserved }

RunOf(i) ==
    (flat.nodes[i].faces_on_plane_idx_start + 1) ..
        (flat.nodes[i].faces_on_plane_idx_start + flat.nodes[i].faces_on_plane_count)

RECURSIVE SumCounts(_)
SumCounts(S) ==
    IF S = {} THEN 0
    ELSE LET i == CHOOSE x \in S : TRUE
         IN  flat.nodes[i].faces_on_plane_count + SumCounts(S \ {i})

\* C16: while the nodes are filled and afterwards, the runs of the filled
\* records are disjoint and cover the coplanar table exactly, so each new run
\* is appended after the runs filled before it and the counts add up to the
\* table length; after flatten the run of every node holds that node's
\* coplanar faces in their order, and the runs follow one another in the
\* order the nodes are filled, which is pre-order, front before back.
C16_RunsTileTheTable ==
    /\ pc \in {"fill", "flat", "done", "xflat", "xdone"} =>
           /\ \A i, j \in FilledSlots : i # j => RunOf(i) \cap RunOf(j) = {}
           /\ UNION { RunOf(i) : i \in FilledSlots } = DOMAIN flat.faces_on_plane
           /\ SumCounts(FilledSlots) = Len(flat.faces_on_plane)
    /\ (pc \in {"flat", "done", "xflat", "xdone"} /\ root # None) =>
           /\ FilledSlots = DOMAIN flat.nodes
           /\ \A h \in SubtreeNodes(root) :
                  LET n == flat.nodes[PosOf(h) + 1]
                  IN  /\ n.faces_on_plane_count = Len(tree[h].faces_on_plane)
                      /\ SubSeq(flat.faces_on_plane,
                                n.faces_on_plane_idx_start + 1,
                                n.faces_on_plane_idx_start + n.faces_on_plane_count)
                             = tree[h].faces_on_plane
           /\ LET o == PreOrder(root)
              IN  \A k \in DOMAIN o :
                     flat.nodes[PosOf(o[k]) + 1].faces_on_plane_idx_start =
                        (IF k = 1 THEN 0
                         ELSE flat.nodes[PosOf(o[k - 1]) + 1].faces_on_plane_idx_start
                              + flat.nodes[PosOf(o[k - 1]) + 1].faces_on_plane_count)

C16_Witness ==
    /\ pc = "flat"
    /\ Len(flat.nodes) = 4
    /\ Len(flat.faces_on_plane) = 4
    /\ flat.nodes[3].faces_on_plane_idx_start = 3
    /\ flat.nodes[4].faces_on_plane_idx_start = 2

\* C17: no step of the pipeline changes the vertex list or the face list,
\* and no step of flatten (FlatBSP.run) or of the writer changes any field
\* of any node of the linked tree, or which node is its root.
C17_GeometryAndTreeUnchanged ==
    [][ /\ vertices' = vertices
        /\ faces' = faces
        /\ pc \in {"built", "index", "fill", "flat", "json", "xflat"} =>
               (tree' = tree /\ root' = root) ]_vars

C17_Witness ==
    /\ pc = "done"
    /\ vertices = VertexList
    /\ faces \in DeepLists
    /\ Len(tree) = 4
    /\ \A h \in DOMAIN tree : tree[h].faces_on_plane # <<>>
    /\ Len(flat.faces_on_plane) = 4
    /\ out # <<>>

\* C18: when a stage of convert_obj_to_bsp has failed, no later stage runs,
\* the caller has a failure in hand, and the output file holds no byte: a
\* failure of write_bsp_binary while it encodes leaves no partial file.
C18_FailureLeavesNoPartialFile ==
    pc = "failed" =>
        /\ err # "none"
        /\ ~ENABLED Next
        /\ out = <<>>

\* The number of faces in the partitions of the pending tasks.
RECURSIVE PendingFaces(_)
PendingFaces(s) ==
    IF s = <<>> THEN 0 ELSE Len(Head(s).idx_list) + PendingFaces(Tail(s))

\* The child slots <<parent, field>> the pending tasks will set.
PendingSlots == { <<stack[t].parent, stack[t].field>> : t \in DOMAIN stack }

\* The child slots that hold a node.
LinkedSlots ==
    { <<h, "front">> : h \in { g \in DOMAIN tree : tree[g].front # None } }
        \cup { <<h, "back">> : h \in { g \in DOMAIN tree : tree[g].back # None } }

\* C19: the loop of build_bsp keeps its pending tasks on an explicit stack,
\* every iteration pops one task and lowers the number of faces still
\* pending, so the loop ends, for a chain as deep as the face list is long
\* too, and it ends with the stack empty; a task is pending for one child
\* slot of its own, is popped once and makes one node: when the loop has
\* ended there is one node per task pushed.
C19_BuildTerminatesWithEmptyStack ==
    /\ [](pc = "build" =>
             /\ \A t \in DOMAIN stack : stack[t].idx_list # <<>>
             /\ Cardinality(PendingSlots) = Len(stack)
             /\ \A t \in DOMAIN stack : stack[t].parent # None =>
                    /\ stack[t].parent \in DOMAIN tree
                    /\ <<stack[t].parent, stack[t].field>> \notin LinkedSlots
             /\ nodes_created = Len(tree)
             /\ Len(tree) = Cardinality(LinkedSlots) + (IF tree = <<>> THEN 0 ELSE 1))
    /\ [][(pc = "build" /\ stack # <<>>) =>
             /\ PendingFaces(stack') < PendingFaces(stack)
             /\ nodes_created' = nodes_created + 1
             /\ Len(stack') <= Len(stack) + 1]_vars
    /\ [](pc = "built" =>
             /\ stack = <<>>
             /\ faces # <<>> => /\ nodes_created = Cardinality(SubtreeNodes(root))
                                /\ nodes_created = Cardinality(LinkedSlots) + 1)
    /\ (pc = "build") ~> (pc = "built")

C19_Witness ==
    /\ pc = "built"
    /\ stack = <<>>
    /\ Len(faces) = 4
    /\ nodes_created = 4
    /\ \A h \in DOMAIN tree : tree[h].front = None \/ tree[h].back = None

\* The class the flags of a vertex scan stand for.
ClassOfFlags(fb) ==
    IF fb[1] /\ ~fb[2] THEN "front"
    ELSE IF fb[2] /\ ~fb[1] THEN "back"
    ELSE IF ~fb[1] /\ ~fb[2] THEN "on"
    ELSE "spanning"

\* Before its last vertex the face has shown a vertex in front of the plane
\* and a vertex behind it: the inlined loop stops with vertices unscanned.
StopsEarly(face, plane) ==
    \E a, b \in 1..(Len(face) - 1) :
        /\ Side(Vtx(vertices, face[a]), plane) = 1
        /\ Side(Vtx(vertices, face[b]), plane) = -1

\* C20: while build_bsp runs, for every face of the list and the plane of
\* every face of the list, the flags the inlined loop ends with, early exit
\* included, stand for the class classify_face returns: front if only
\* d > epsilon was seen, back if only d < -epsilon, on if neither, spanning
\* if both.
C20_InlineScanAgreesWithClassifyFace ==
    pc = "build" =>
        \A i \in DOMAIN faces, j \in DOMAIN planes :
            ClassOfFlags(InlineScan(faces[i], planes[j], vertices, 1, FALSE, FALSE))
                = classify_face(faces[i], planes[j], vertices)

C20_Witness ==
    /\ pc = "built"
    /\ root # None
    /\ \E fi \in SubtreeFaces(tree[root].front) :
           /\ StopsEarly(faces[fi + 1], planes[tree[root].plane_face + 1])
           /\ ClassAt(fi, root) = "spanning"
    /\ \E fi \in SubtreeFaces(tree[root].back) : ClassAt(fi, root) = "back"

\* The smallest member of a non-empty set of integers.
Min(S) == CHOOSE x \in S : \A y \in S : x <= y

\* The sequence of integers is strictly increasing.
Increasing(s) == \A a, b \in DOMAIN s : a < b => s[a] < s[b]

\* C21: in the tree build_bsp returns the root's splitting face is input
\* face 0, the splitting face of every node is the face of smallest position
\* among the faces held in the node's subtree, and every coplanar list holds
\* its faces in input order.
C21_SplitterIsFirstOfSubtree ==
    (Built /\ root # None) =>
        /\ tree[root].plane_face = 0
        /\ \A h \in SubtreeNodes(root) :
               /\ tree[h].plane_face = Min(SubtreeFaces(h))
               /\ tree[h].plane_face = tree[h].faces_on_plane[1]
               /\ Increasing(tree[h].faces_on_plane)

C21_Witness ==
    /\ pc = "built"
    /\ root # None
    /\ \E h \in SubtreeNodes(root) \ {root} :
           /\ Cardinality(SubtreeFaces(h)) >= 3
           /\ Cardinality(SubtreeNodes(h)) >= 2
           /\ tree[h].plane_face = Min(SubtreeFaces(h))
           /\ tree[h].plane_face > 0

\* Face fi has a vertex in front of the plane of node h by more than
\* epsilon; it has a vertex behind it by more than epsilon.
HasVertexInFront(fi, h) ==
    \E k \in DOMAIN faces[fi + 1] :
        Side(Vtx(vertices, faces[fi + 1][k]), PlaneOf(h)) = 1

HasVertexBehind(fi, h) ==
    \E k \in DOMAIN faces[fi + 1] :
        Side(Vtx(vertices, faces[fi + 1][k]), PlaneOf(h)) = -1

\* C22 as claimed: in a finished tree every face of a node's back subtree
\* has no vertex in front of the node's plane, and every face of its front
\* subtree has no vertex behind the node's plane.
C22_SubtreesStrictlyOnTheirSide ==
    Built => \A h \in SubtreeNodes(root) :
        /\ \A fi \in SubtreeFaces(tree[h].back) : ~HasVertexInFront(fi, h)
        /\ \A fi \in SubtreeFaces(tree[h].front) : ~HasVertexBehind(fi, h)

\* C22 amended: in a finished tree every face of a node's back subtree has
\* a vertex behind the node's plane and none in front of it, and every face
\* of its front subtree has a vertex in front of the node's plane; it may
\* have vertices behind it as well (a spanning face).
C22_BackStrictFrontHasVertexInFront ==
    Built => \A h \in SubtreeNodes(root) :
        /\ \A fi \in SubtreeFaces(tree[h].back) :
               HasVertexBehind(fi, h) /\ ~HasVertexInFront(fi, h)
        /\ \A fi \in SubtreeFaces(tree[h].front) : HasVertexInFront(fi, h)

C22_Witness ==
    /\ pc = "built"
    /\ root # None
    /\ \E fi \in SubtreeFaces(tree[root].front) :
           HasVertexInFront(fi, root) /\ HasVertexBehind(fi, root)
    /\ \E fi \in SubtreeFaces(tree[root].back) : ~HasVertexInFront(fi, root)

\* The pieces the face positions are held in while build_bsp runs: the lists
\* of the pending tasks, then the coplanar lists of the nodes made so far.
Pieces ==
    [t \in DOMAIN stack |-> stack[t].idx_list]
        \o [h \in DOMAIN tree |-> tree[h].faces_on_plane]

RECURSIVE TotalLen(_)
TotalLen(ss) == IF ss = <<>> THEN 0 ELSE Len(Head(ss)) + TotalLen(Tail(ss))

\* C23: at the start of every iteration of the loop of build_bsp (and when
\* the loop ends) the lists of the pending tasks and the coplanar lists of
\* the nodes made so far are pairwise disjoint, hold no position twice and
\* together hold every position 0..faceCount-1; every pending list is
\* non-empty and in increasing order.
C23_PendingAndPlacedPartitionFaces ==
    pc = "build" =>
        /\ UNION { Range(Pieces[p]) : p \in DOMAIN Pieces } = FacePositions
        /\ TotalLen(Pieces) = Len(faces)
        /\ \A p, q \in DOMAIN Pieces :
               p # q => Range(Pieces[p]) \cap Range(Pieces[q]) = {}
        /\ \A t \in DOMAIN stack :
               /\ stack[t].idx_list # <<>>
               /\ Increasing(stack[t].idx_list)

C23_Witness ==
    /\ pc = "build"
    /\ Len(stack) = 2
    /\ Len(tree) = 1
    /\ Len(stack[2].idx_list) = 2
    /\ stack[1].field = "back"
    /\ stack[2].field = "front"

\* The tree under node h of heap t, without its handles: the empty sequence
\* for None, else one record with the subtrees nested.
RECURSIVE Shape(_, _)
Shape(t, h) ==
    IF h = None THEN <<>>
    ELSE << [plane_face |-> t[h].plane_face,
             faces_on_plane |-> t[h].faces_on_plane,
             front |-> Shape(t, t[h].front),
             back |-> Shape(t, t[h].back)] >>

\* Every face of the list has three vertices or more and is 'on' its own
\* plane.
EveryFaceOnOwnPlane ==
    \A i \in DOMAIN faces :
        /\ Len(faces[i]) >= 3
        /\ classify_face(faces[i], face_plane(faces[i], vertices), vertices) = "on"

\* C24: for a face list each of whose faces is 'on' its own plane, the
\* recursive build_bsp of build_bsp.py returns a tree, and it is the tree the
\* iterative build_bsp of obj_to_bsp.py returns for the same list: the same
\* splitting face, the same ordered coplanar list and the same front and back
\* subtrees at every node.
C24_RecursiveAndIterativeBuildAgree ==
    (pc = "built" /\ EveryFaceOnOwnPlane) =>
        LET r == RecBuild([i \in DOMAIN faces |-> i - 1], <<>>, 1)
        IN  /\ r.err = "none"
            /\ Shape(r.heap, r.node) = Shape(tree, root)

\* What FlatBSP().run(tree, faces) of export_bsp_bin.py gives for the tree
\* and the face list at hand.
RecursiveFlat ==
    XFlatten(root, [nodes |-> <<>>, faces_on_plane |-> <<>>, faces |-> faces,
                    node_indices |-> [a \in {} |-> 0]], 1)

\* Child index i of the iterative node array and child index j of the
\* recursive one stand for the same child: both absent, or the positions of
\* one and the same node.
SameChild(i, j, rf) ==
    \/ i = -1 /\ j = -1
    \/ \E c \in SubtreeNodes(root) :
           i = node_to_idx[id(c)] /\ j = rf.node_indices[id(c)]

\* C25: for the tree and face list the iterative flatten of obj_to_bsp.py
\* has just flattened, the recursive flatten of export_bsp_bin.py returns and
\* gives the same coplanar table and a node array of the same length that differs only
\* by where each node stands: the root is at 0 in both, and the two records
\* of a node have the same plane face index, the same run start and count,
\* and children that are the same nodes.
C25_RecursiveAndIterativeFlattenAgree ==
    (pc = "flat" /\ root # None) =>
        LET rf == RecursiveFlat.st
        IN  /\ RecursiveFlat.err = "none"
            /\ rf.faces_on_plane = flat.faces_on_plane
            /\ Len(rf.nodes) = Len(flat.nodes)
            /\ DOMAIN rf.node_indices = DOMAIN node_to_idx
            /\ rf.node_indices[id(root)] = 0
            /\ node_to_idx[id(root)] = 0
            /\ \A h, g \in SubtreeNodes(root) :
                   h # g => rf.node_indices[id(h)] # rf.node_indices[id(g)]
            /\ \A h \in SubtreeNodes(root) :
                   LET n == flat.nodes[node_to_idx[id(h)] + 1]
                       x == rf.nodes[rf.node_indices[id(h)] + 1]
                   IN  /\ n.plane_face_idx = x.plane_face_idx
                       /\ n.faces_on_plane_count = x.faces_on_plane_count
                       /\ n.faces_on_plane_idx_start = x.faces_on_plane_idx_start
                       /\ SameChild(n.front_node_idx, x.front_node_idx, rf)
                       /\ SameChild(n.back_node_idx, x.back_node_idx, rf)

\* C26: when flatten of obj_to_bsp.py has returned for a tree of N nodes, on
\* an instance that was fresh, self.nodes has exactly N entries and none of
\* them is the reserved placeholder; node_to_idx maps the N nodes one-to-one
\* onto the positions 0..N-1; every child has a greater position than its
\* parent; and while the nodes are filled, a step fills at most one slot and
\* never writes a slot that was filled before, so each node is filled exactly
\* once.
C26_FlattenFillsEveryNodeOnce ==
    /\ [](pc = "flat" =>
            LET N == Cardinality(SubtreeNodes(root))
            IN  /\ Len(flat.nodes) = N
                /\ \A i \in DOMAIN flat.nodes : flat.nodes[i] # Reserved
                /\ root # None =>
                       /\ DOMAIN node_to_idx = { id(h) : h \in SubtreeNodes(root) }
                       /\ { PosOf(h) : h \in SubtreeNodes(root) } = 0..(N - 1)
                       /\ \A g, h \in SubtreeNodes(root) :
                              PosOf(g) = PosOf(h) => g = h
                       /\ \A h \in SubtreeNodes(root) :
                              \A k \in 1..Len(ChildrenOf(h)) :
                                  PosOf(ChildrenOf(h)[k]) > PosOf(h))
    /\ [][ pc = "fill" =>
               /\ \A i \in DOMAIN flat.nodes :
                      flat.nodes[i] # Reserved => flat'.nodes[i] = flat.nodes[i]
               /\ Cardinality({ i \in DOMAIN flat.nodes :
                                   flat'.nodes[i] # flat.nodes[i] }) <= 1 ]_vars

C26_Witness ==
    /\ pc = "flat"
    /\ root # None
    /\ Len(flat.nodes) = 4
    /\ tree[root].front # None
    /\ tree[root].back # None
    /\ PosOf(tree[root].front) = 1
    /\ PosOf(tree[root].back) = 2
    /\ flat.nodes[1].back_node_idx = 2
    /\ flat.nodes[2].front_node_idx + flat.nodes[2].back_node_idx = 2
    /\ \A i \in DOMAIN flat.nodes : flat.nodes[i] # Reserved

\* The three counts of the header fit their unsigned 16-bit fields.
CountsFit ==
    /\ PencilVertexCount(nodes_created) <= HeaderMax
    /\ PencilFaceCount(nodes_created) <= HeaderMax
    /\ nodes_created <= HeaderMax

\* C27: whenever vertexCount, faceCount and nodeCount fit the unsigned
\* 16-bit header fields, every value write_bsp_binary is about to pack into
\* a node record fits its field, every front/back child index lying in
\* -1..32767, and write_bsp_binary does not fail with struct.error.
C27_NodeFieldsFitWhenCountsFit ==
    CountsFit =>
        /\ pc = "flat" =>
               \A i \in 0..(nodes_created - 1) :
                   /\ ChainNode(nodes_created, i).front_node_idx \in -1..32767
                   /\ ChainNode(nodes_created, i).back_node_idx \in -1..32767
                   /\ \A c \in DOMAIN ChainNodeCalls(nodes_created, i) :
                          CallFits(ChainNodeCalls(nodes_created, i)[c])
        /\ pc # "failed"

====
